---- MODULE Spec2Model ----
(***************************************************************************)
(* GEOtoPy, geotopy/__init__.py: the settings codec (read_setting,         *)
(* print_setting), read_settings, the patch engine (patch_inpts_file,      *)
(* dump_to), the steps of run_in and __call__, and clone_into with its     *)
(* lock, of class GEOtop.                                                  *)
(*                                                                         *)
(* Text is modelled character by character: a Python str is a sequence of  *)
(* one-character strings, the file geotop.inpts is the sequence of the     *)
(* characters written to it, and the two regular expressions are computed  *)
(* the way re.match computes them.  A Python value is a record             *)
(* [tag, v]: tag is the runtime type, v the payload.  A float is held in   *)
(* tenths (v = 15 is 1.5), which is the number domain of the model: every  *)
(* numeric text the model draws has at most one fractional digit.          *)
(***************************************************************************)
EXTENDS Integers, Sequences, FiniteSets, TLC

VARIABLES
    file,      \* content of working_dir/geotop.inpts, a sequence of characters
    op,        \* the last call: "none", "patch_inpts_file", "read_settings",
               \*   "read_setting", "print_setting", "read_printed"
    source,    \* patch_inpts_file / read_settings: the file content the call read
    diff,      \* patch_inpts_file: the diff argument (a function key -> value)
    annotations, \* patch_inpts_file: the annotations argument
    line,      \* read_setting: the line argument
    setting,   \* print_setting: the <<key, value>> argument
    ret,       \* what the last call returned or raised
    handed,    \* the lines the last call passed to read_setting, in order
    clock,     \* datetime.now(), advanced by every patch
    run_args,  \* self.run_args: the keyword arguments of subprocess.run
    working_dir, \* run_in: what the working_dir argument was when the call began
    pc,        \* run_in: where the call is
    steps,     \* run_in: the steps of the call so far, calls and returns, in order
    exc,       \* run_in: the exception the call ended with, or ""
    tmpdir,    \* __call__: the TemporaryDirectory, "none", "open" or "removed"
    runs,      \* the number of calls of run_in and __call__ so far
    store,     \* whether the object was built with store=True
    lock,      \* self.lock: the thread of clone_into that holds it, or 0
    position,  \* the stream position of self.inputs
    clone_pc,  \* clone_into: where the call of each thread is
    started    \* clone_into: the stream position at which each thread's last
               \*   tarfile.open began to read

fileVars == <<file, op, source, diff, annotations, line, setting, ret, handed, clock>>

runVars == <<run_args, working_dir, pc, steps, exc, tmpdir, runs>>

cloneVars == <<store, lock, position, clone_pc, started>>

vars == <<fileVars, runVars, cloneVars>>

-----------------------------------------------------------------------------
(* Bounds of the model *)

MaxLines == 2      \* lines of the initial geotop.inpts
MaxFileLen == 48   \* characters of a geotop.inpts that patch_inpts_file is called on
MaxRuns == 4       \* calls of run_in and __call__ on one object
NumThreads == 3    \* threads that call clone_into on one object
ArchiveLen == 2    \* blocks of the archive held in self.inputs

-----------------------------------------------------------------------------
(* Characters *)

NL == "\n"
TAB == "\t"

\* re: \s
Whitespace == {" ", TAB, NL}

Digits == <<"0", "1", "2", "3", "4", "5", "6", "7", "8", "9">>

DigitSet == {Digits[i] : i \in 1..10}

\* re: [A-Z]
Upper == {"A", "B", "C", "D", "E", "F", "G", "H", "I", "J", "K", "L", "M",
          "N", "O", "P", "Q", "R", "S", "T", "U", "V", "W", "X", "Y", "Z"}

Lower == {"a", "b", "c", "d", "e", "f", "g", "h", "i", "j", "k", "l", "m",
          "n", "o", "p", "q", "r", "s", "t", "u", "v", "w", "x", "y", "z"}

\* re: \w
Word == Upper \cup Lower \cup DigitSet \cup {"_"}

\* The first position j >= i of s whose character is not in set, Len(s)+1 if none:
\* where a greedy set* starting at i stops.
SkipWhile(s, i, set) ==
    LET stop == {j \in i..Len(s) : s[j] \notin set}
    IN  IF stop = {} THEN Len(s) + 1
        ELSE CHOOSE j \in stop : \A k \in stop : j <= k

\* The position of the first character c at or after i, Len(s)+1 if none.
Find(s, i, c) ==
    LET at == {j \in i..Len(s) : s[j] = c}
    IN  IF at = {} THEN Len(s) + 1
        ELSE CHOOSE j \in at : \A k \in at : j <= k

\* str.strip(): whitespace removed at both ends.
Strip(s) ==
    LET keep == {j \in 1..Len(s) : s[j] \notin Whitespace}
    IN  IF keep = {} THEN <<>>
        ELSE SubSeq(s, CHOOSE j \in keep : \A k \in keep : j <= k,
                       CHOOSE j \in keep : \A k \in keep : j >= k)

\* s occurs in t as a contiguous run of characters.
Contains(t, s) ==
    \E i \in 1..(Len(t) - Len(s) + 1) : SubSeq(t, i, i + Len(s) - 1) = s

\* str.split(sep): the pieces of s between the occurrences of the character sep.
RECURSIVE Split(_, _)
Split(s, sep) ==
    LET j == Find(s, 1, sep)
    IN  IF j > Len(s) THEN <<s>>
        ELSE <<SubSeq(s, 1, j - 1)>> \o Split(SubSeq(s, j + 1, Len(s)), sep)

\* file.readlines(): the content cut after every newline; a last line without
\* newline is a line too, and no line is empty.
RECURSIVE readlines(_)
readlines(text) ==
    IF text = <<>> THEN <<>>
    ELSE LET j == Find(text, 1, NL)
         IN  IF j >= Len(text) THEN <<text>>
             ELSE <<SubSeq(text, 1, j)>> \o readlines(SubSeq(text, j + 1, Len(text)))

\* The concatenation of a sequence of strings: what successive write calls leave.
RECURSIVE Concat(_)
Concat(ss) == IF ss = <<>> THEN <<>> ELSE Head(ss) \o Concat(Tail(ss))

-----------------------------------------------------------------------------
(* Python values *)

None == [tag |-> "none", v |-> 0]
PyInt(n) == [tag |-> "int", v |-> n]
PyBool(b) == [tag |-> "bool", v |-> b]
PyFloat(tenths) == [tag |-> "float", v |-> tenths]
PyList(tenthsSeq) == [tag |-> "list", v |-> tenthsSeq]
PyStr(s) == [tag |-> "str", v |-> s]

\* Python's truth value of an object, as `if value:` takes it.
Truthy(value) ==
    CASE value.tag = "none" -> FALSE
      [] value.tag = "int" -> value.v # 0
      [] value.tag = "bool" -> value.v
      [] value.tag = "float" -> value.v # 0
      [] value.tag = "list" -> value.v # <<>>
      [] value.tag = "str" -> value.v # <<>>

\* value is None
IsNone(value) == value.tag = "none"

\* Python's == on two values of the model.
PyEq(a, b) == a.tag = b.tag /\ a.v = b.v

RECURSIVE NatToStr(_)
NatToStr(n) ==
    IF n < 10 THEN <<Digits[n + 1]>>
    ELSE NatToStr(n \div 10) \o <<Digits[(n % 10) + 1]>>

\* str(int)
IntToStr(n) == IF n < 0 THEN <<"-">> \o NatToStr(-n) ELSE NatToStr(n)

\* str(float), a float of the model being a number of tenths: 15 -> "1.5", 0 -> "0.0"
FloatToStr(t) ==
    LET a == IF t < 0 THEN -t ELSE t
    IN  (IF t < 0 THEN <<"-">> ELSE <<>>)
        \o NatToStr(a \div 10) \o <<".">> \o <<Digits[(a % 10) + 1]>>

\* str(list of floats): "[1.0, 2.5]"
RECURSIVE JoinFloats(_)
JoinFloats(fs) ==
    IF fs = <<>> THEN <<>>
    ELSE IF Len(fs) = 1 THEN FloatToStr(fs[1])
    ELSE FloatToStr(fs[1]) \o <<",", " ">> \o JoinFloats(Tail(fs))

TextTrue == <<"T", "r", "u", "e">>
TextFalse == <<"F", "a", "l", "s", "e">>
TextNone == <<"N", "o", "n", "e">>

\* str(value), as an f-string formats {value}
Str(value) ==
    CASE value.tag = "none" -> TextNone
      [] value.tag = "int" -> IntToStr(value.v)
      [] value.tag = "bool" -> IF value.v THEN TextTrue ELSE TextFalse
      [] value.tag = "float" -> FloatToStr(value.v)
      [] value.tag = "list" -> <<"[">> \o JoinFloats(value.v) \o <<"]">>
      [] value.tag = "str" -> value.v

\* repr(str) inside the message of a failed int() or float()
Repr(s) == <<"'">> \o s \o <<"'">>

\* The value of a run of decimal digits.
RECURSIVE DigitsValue(_)
DigitsValue(ds) ==
    IF ds = <<>> THEN 0
    ELSE 10 * DigitsValue(SubSeq(ds, 1, Len(ds) - 1))
         + (CHOOSE d \in 0..9 : Digits[d + 1] = ds[Len(ds)])

\* A run of decimal digits, in which Python allows single underscores between
\* two digits.
AllDigits(s) ==
    /\ s # <<>>
    /\ \A i \in 1..Len(s) :
          \/ s[i] \in DigitSet
          \/ /\ s[i] = "_"
             /\ 1 < i /\ i < Len(s)
             /\ s[i - 1] \in DigitSet /\ s[i + 1] \in DigitSet

Ungroup(s) == SelectSeq(s, LAMBDA c : c # "_")

Unsigned(s) == IF s # <<>> /\ s[1] \in {"+", "-"} THEN Tail(s) ELSE s

Sign(s) == IF s # <<>> /\ s[1] = "-" THEN -1 ELSE 1

\* int(text): surrounding whitespace dropped, an optional sign, decimal digits.
IntOk(text) == AllDigits(Unsigned(Strip(text)))

IntOf(text) == Sign(Strip(text)) * DigitsValue(Ungroup(Unsigned(Strip(text))))

\* float(text) in tenths: surrounding whitespace dropped, an optional sign,
\* digits, and optionally a point with at most one digit after it; digits
\* before the point or after it, or both.
FloatOk(text) ==
    LET u == Unsigned(Strip(text))
        p == Find(u, 1, ".")
    IN  IF p > Len(u) THEN AllDigits(u)
        ELSE /\ Len(u) - p <= 1
             /\ Len(u) > 1
             /\ p > 1 => AllDigits(SubSeq(u, 1, p - 1))
             /\ p < Len(u) => AllDigits(SubSeq(u, p + 1, Len(u)))

FloatOf(text) ==
    LET u == Unsigned(Strip(text))
        p == Find(u, 1, ".")
    IN  Sign(Strip(text)) *
          (10 * DigitsValue(Ungroup(SubSeq(u, 1, p - 1)))
           + DigitsValue(SubSeq(u, p + 1, Len(u))))

-----------------------------------------------------------------------------
(* The keyword schema and the two regular expressions *)

\* GEOtop.keywords, loaded from keywords.json: keyword -> type tag.  One keyword
\* of each of the five types.
keywords ==
    (<<"I">> :> "int") @@ (<<"B">> :> "bool") @@ (<<"F">> :> "float")
    @@ (<<"A">> :> "array") @@ (<<"S">> :> "string")

\* _comment_re.match(line) is not None, the pattern being \s*!.*\n|\s+ and match
\* anchoring at the start of the line only.  First alternative: \s* stops at the
\* first non-whitespace character, which must be "!", and a newline must follow
\* it somewhere.  Second alternative: \s+ needs one whitespace character at
\* the start, whatever follows.
comment_re_match(s) ==
    LET j == SkipWhile(s, 1, Whitespace)
    IN  \/ j <= Len(s) /\ s[j] = "!" /\ Find(s, j + 1, NL) <= Len(s)
        \/ s # <<>> /\ s[1] \in Whitespace

\* _setting_re.match(line), the pattern being
\*   \s*(?P<keyword>[A-Z]\w*)\s*=\s*(?P<value>.*)(?:\n|\Z)
\* Every quantifier is greedy and is followed by a character outside its class,
\* so the first attempt is the only one: . stops at the first newline, and
\* (?:\n|\Z) then always matches.
setting_re_match(s) ==
    LET j == SkipWhile(s, 1, Whitespace)
        k == SkipWhile(s, j + 1, Word)
        m == SkipWhile(s, k, Whitespace)
        n == SkipWhile(s, m + 1, Whitespace)
        e == Find(s, n, NL)
    IN  IF j <= Len(s) /\ s[j] \in Upper /\ m <= Len(s) /\ s[m] = "="
        THEN [matched |-> TRUE, keyword |-> SubSeq(s, j, k - 1),
              value |-> SubSeq(s, n, e - 1)]
        ELSE [matched |-> FALSE, keyword |-> <<>>, value |-> <<>>]

-----------------------------------------------------------------------------
(* The settings codec *)

MsgNotValid == <<" ", "i", "s", " ", "n", "o", "t", " ", "a", " ", "v", "a", "l", "i", "d", " ", "s", "e", "t", "t", "i", "n", "g", ".">>
MsgUnknownKeyword == <<"U", "n", "k", "n", "o", "w", "n", " ", "k", "e", "y", "w", "o", "r", "d", " ">>
MsgFloat == <<"c", "o", "u", "l", "d", " ", "n", "o", "t", " ", "c", "o", "n", "v", "e", "r", "t", " ", "s", "t", "r", "i", "n", "g", " ", "t", "o", " ", "f", "l", "o", "a", "t", ":", " ">>
MsgInt == <<"i", "n", "v", "a", "l", "i", "d", " ", "l", "i", "t", "e", "r", "a", "l", " ", "f", "o", "r", " ", "i", "n", "t", "(", ")", " ", "w", "i", "t", "h", " ", "b", "a", "s", "e", " ", "1", "0", ":", " ">>

\* A call that returned <<key, value>>, and one that raised ValueError(msg).
Return(key, value) ==
    [ok |-> TRUE, key |-> key, value |-> value, exc |-> "", msg |-> <<>>]

Raise(msg) ==
    [ok |-> FALSE, key |-> <<>>, value |-> None, exc |-> "ValueError", msg |-> msg]

\* float(text) and int(text), raising ValueError on text that is no number.
float(key, text) ==
    IF FloatOk(text) THEN Return(key, PyFloat(FloatOf(text)))
    ELSE Raise(MsgFloat \o Repr(text))

int(key, text) ==
    IF IntOk(text) THEN Return(key, PyInt(IntOf(text)))
    ELSE Raise(MsgInt \o Repr(text))

\* [float(n) for n in value.split(',')]: the first token that is no float raises.
array(key, text) ==
    LET tokens == Split(text, ",")
        bad == {i \in 1..Len(tokens) : ~FloatOk(tokens[i])}
    IN  IF bad = {}
        THEN Return(key, PyList([i \in 1..Len(tokens) |-> FloatOf(tokens[i])]))
        ELSE Raise(MsgFloat \o Repr(tokens[CHOOSE i \in bad : \A j \in bad : i <= j]))

\* True if int(value) == 1 else False
bool(key, text) ==
    IF IntOk(text) THEN Return(key, PyBool(IntOf(text) = 1))
    ELSE Raise(MsgInt \o Repr(text))

\* The coercion of the matched value text by the type tag of the keyword.
coerce(key, text) ==
    CASE keywords[key] = "float" -> float(key, text)
      [] keywords[key] = "array" -> array(key, text)
      [] keywords[key] = "bool" -> bool(key, text)
      [] keywords[key] = "int" -> int(key, text)
      [] keywords[key] = "string" -> Return(key, PyStr(text))
      [] OTHER -> Return(key, PyStr(text))

\* read_setting once the pattern has been tried: match is what
\* _setting_re.match(line) gave.
read_match_lookup_first(l, match) ==
    LET j == SkipWhile(l, 1, Whitespace)
        word == SubSeq(l, j, SkipWhile(l, j, Word) - 1)
    IN  IF word \notin DOMAIN keywords
        THEN Raise(MsgUnknownKeyword \o word \o <<".">>)
        ELSE IF ~match.matched THEN Raise(l \o MsgNotValid)
             ELSE coerce(match.keyword, match.value)

read_match(l, match) ==
    IF ~match.matched THEN Raise(l \o MsgNotValid)
    ELSE IF match.keyword \notin DOMAIN keywords
         THEN Raise(MsgUnknownKeyword \o match.keyword \o <<".">>)
         ELSE coerce(match.keyword, match.value)

\* GEOtop.read_setting(line)
read_setting(l) == read_match(l, setting_re_match(l))

\* str(value).strip('[]'): brackets removed at both ends.
StripBrackets(s) ==
    LET keep == {j \in 1..Len(s) : s[j] \notin {"[", "]"}}
    IN  IF keep = {} THEN <<>>
        ELSE SubSeq(s, CHOOSE j \in keep : \A k \in keep : j <= k,
                       CHOOSE j \in keep : \A k \in keep : j >= k)

\* The text print_setting puts after "key = ", by the type tag of the keyword.
format(key, value) ==
    CASE keywords[key] \in {"float", "int", "string"} -> Str(value)
      [] keywords[key] = "bool" -> IF Truthy(value) THEN <<"1">> ELSE <<"0">>
      [] keywords[key] = "array" -> StripBrackets(Str(value))
      [] OTHER -> Str(value)

\* GEOtop.print_setting(key, value): the line, or ValueError for an unknown keyword.
print_setting(key, value) ==
    IF key \notin DOMAIN keywords
    THEN [ok |-> FALSE, line |-> <<>>, exc |-> "ValueError",
          msg |-> MsgUnknownKeyword \o key \o <<".">>]
    ELSE [ok |-> TRUE, line |-> key \o <<" ", "=", " ">> \o format(key, value) \o <<NL>>,
          exc |-> "", msg |-> <<>>]

-----------------------------------------------------------------------------
(* read_settings *)

\* A dict is the sequence of its <<key, value>> items in insertion order.
Keys(d) == {d[i][1] : i \in 1..Len(d)}

Get(d, key) == d[CHOOSE i \in 1..Len(d) : d[i][1] = key][2]

\* d[key] = value: the value replaced in place, or a new item at the end.
Set(d, key, value) ==
    IF key \in Keys(d)
    THEN [i \in 1..Len(d) |-> IF d[i][1] = key THEN <<key, value>> ELSE d[i]]
    ELSE Append(d, <<key, value>>)

\* del d[key]
Del(d, key) == SelectSeq(d, LAMBDA item : item[1] # key)

\* The try block of the loop of read_settings for a line l that is no comment:
\* r is what read_setting(l) returned or raised, done the settings dict so far,
\* the lines passed to read_setting and the number of warnings.
read_line(done, l, r) ==
    [settings |-> IF r.ok THEN Set(done.settings, r.key, r.value) ELSE done.settings,
     handed |-> Append(done.handed, l),
     warnings |-> done.warnings + (IF r.ok THEN 0 ELSE 1)]

\* The loop of read_settings over lines.
RECURSIVE read_lines(_)
read_lines(lines) ==
    IF lines = <<>> THEN [settings |-> <<>>, handed |-> <<>>, warnings |-> 0]
    ELSE IF comment_re_match(lines[Len(lines)])
         THEN read_lines(SubSeq(lines, 1, Len(lines) - 1))
         ELSE read_line(read_lines(SubSeq(lines, 1, Len(lines) - 1)),
                        lines[Len(lines)], read_setting(lines[Len(lines)]))

\* GEOtop.read_settings(geotop_inpts_path), text being the content of the file.
read_settings(text) == read_lines(readlines(text))

-----------------------------------------------------------------------------
(* dump_to and patch_inpts_file *)

HeaderText == <<"!", " ", "G", "E", "O", "t", "o", "p", " ", "i", "n", "p", "u", "t", " ", "f", "i", "l", "e", " ", "w", "r", "i", "t", "t", "e", "n", " ", "b", "y", " ", "G", "E", "O", "t", "o", "P", "y", " ">>
NotePrefix == <<"!", " ", "G", "E", "O", "t", "o", "P", "y", ":", " ">>
TextDeleted == <<" ", "d", "e", "l", "e", "t", "e", "d", ",", " ", "w", "a", "s", " ">>
TextOverwritten == <<" ", "o", "v", "e", "r", "w", "r", "i", "t", "t", "e", "n", ",", " ", "w", "a", "s", " ">>
AddedMarker == <<NL, "!", " ", "S", "e", "t", "t", "i", "n", "g", "s", " ", "a", "d", "d", "e", "d", " ", "b", "y", " ", "G", "E", "O", "t", "o", "P", "y", NL>>

\* datetime.now().strftime('%x %X'): the text of the time of the call.
Stamp(now) == NatToStr(now)

\* The header line the patch writes first.
Header(now) == HeaderText \o Stamp(now) \o <<NL>>

\* The three annotation comments of the patch.
NoteDeleted(key, value) == NotePrefix \o key \o TextDeleted \o Str(value) \o <<".", NL>>

NoteOverwritten(key, value) ==
    NotePrefix \o key \o TextOverwritten \o Str(value) \o <<".", NL>>

NoteError(msg) == NotePrefix \o msg \o <<NL>>

\* GEOtop.dump_to(settings, destination): what is written to destination, and
\* whether print_setting raised (the items after the one that raised are not
\* visited).
RECURSIVE dump_to(_)
dump_to(settings) ==
    IF settings = <<>> THEN [out |-> <<>>, raised |-> FALSE, msg |-> <<>>]
    ELSE LET keyword == settings[1][1]
             value == settings[1][2]
             p == print_setting(keyword, value)
             rest == dump_to(Tail(settings))
         IN  IF ~Truthy(value) THEN rest
             ELSE IF ~p.ok THEN [out |-> <<>>, raised |-> TRUE, msg |-> p.msg]
             ELSE [out |-> p.line \o rest.out, raised |-> rest.raised, msg |-> rest.msg]

\* The try block of the loop of patch_inpts_file for a line l that is no
\* comment: r is what read_setting(l) returned or raised, done what the loop has
\* done so far: one write per line (outs), the working copy of diff, and the
\* lines passed to read_setting (handed).
patch_setting_keeps_key(done, l, annotate, r) ==
    LET d == done.diff
        write(text, left) ==
            [outs |-> Append(done.outs, text), diff |-> left,
             handed |-> Append(done.handed, l)]
    IN  IF ~r.ok THEN write(IF annotate THEN NoteError(r.msg) ELSE <<>>, d)
        ELSE IF r.key \notin Keys(d) THEN write(l, d)
        ELSE IF IsNone(Get(d, r.key))
             THEN write((IF annotate THEN NoteDeleted(r.key, r.value) ELSE <<>>) \o l,
                        Del(d, r.key))
        ELSE IF ~PyEq(Get(d, r.key), r.value)
             THEN write((IF annotate THEN NoteOverwritten(r.key, r.value) ELSE <<>>)
                        \o print_setting(r.key, Get(d, r.key)).line,
                        d)
        ELSE write(l, Del(d, r.key))

patch_setting_comments_absent(done, l, annotate, r) ==
    LET d == done.diff
        write(text, left) ==
            [outs |-> Append(done.outs, text), diff |-> left,
             handed |-> Append(done.handed, l)]
    IN  IF ~r.ok THEN write(IF annotate THEN NoteError(r.msg) ELSE <<>>, d)
        ELSE IF r.key \notin Keys(d) THEN write(<<"!", " ">> \o l, d)
        ELSE IF IsNone(Get(d, r.key))
             THEN write((IF annotate THEN NoteDeleted(r.key, r.value) ELSE <<>>) \o l,
                        Del(d, r.key))
        ELSE IF ~PyEq(Get(d, r.key), r.value)
             THEN write((IF annotate THEN NoteOverwritten(r.key, r.value) ELSE <<>>)
                        \o print_setting(r.key, Get(d, r.key)).line,
                        Del(d, r.key))
        ELSE write(l, Del(d, r.key))

patch_setting(done, l, annotate, r) ==
    LET d == done.diff
        write(text, left) ==
            [outs |-> Append(done.outs, text), diff |-> left,
             handed |-> Append(done.handed, l)]
    IN  IF ~r.ok THEN write(IF annotate THEN NoteError(r.msg) ELSE <<>>, d)
        ELSE IF r.key \notin Keys(d) THEN write(l, d)
        ELSE IF IsNone(Get(d, r.key))
             THEN write((IF annotate THEN NoteDeleted(r.key, r.value) ELSE <<>>) \o l,
                        Del(d, r.key))
        ELSE IF ~PyEq(Get(d, r.key), r.value)
             THEN write((IF annotate THEN NoteOverwritten(r.key, r.value) ELSE <<>>)
                        \o print_setting(r.key, Get(d, r.key)).line,
                        Del(d, r.key))
        ELSE write(l, Del(d, r.key))

\* One pass of the body of the for loop of patch_inpts_file, over the line l: a
\* comment line is written as it is.
patch_line(done, l, annotate) ==
    IF comment_re_match(l) THEN [done EXCEPT !.outs = Append(@, l)]
    ELSE patch_setting(done, l, annotate, read_setting(l))

\* The for loop of patch_inpts_file over lines, d being the copy of diff.
RECURSIVE patch_lines(_, _, _)
patch_lines(lines, d, annotate) ==
    IF lines = <<>> THEN [outs |-> <<>>, diff |-> d, handed |-> <<>>]
    ELSE patch_line(patch_lines(SubSeq(lines, 1, Len(lines) - 1), d, annotate),
                    lines[Len(lines)], annotate)

\* The end of patch_inpts_file, body being what the loop has done: the file as
\* the call leaves it, whether the call ended in the ValueError of dump_to, which
\* nothing catches, and from the loop what it wrote for each original line
\* (outs), the items left in the copy of diff (rest) and the lines it passed
\* to read_setting (handed).
patch_end(body, annotate, now) ==
    LET added == dump_to(body.diff)
    IN  [file |-> Header(now) \o Concat(body.outs)
                  \o (IF body.diff # <<>> /\ annotate THEN AddedMarker ELSE <<>>)
                  \o (IF body.diff # <<>> THEN added.out ELSE <<>>),
         raised |-> body.diff # <<>> /\ added.raised,
         msg |-> added.msg,
         outs |-> body.outs,
         rest |-> body.diff,
         handed |-> body.handed]

\* GEOtop.patch_inpts_file(working_dir, diff, annotations): text is the content
\* of working_dir/geotop.inpts before the call and now the time of the call.
patch_inpts_file(text, d, annotate, now) ==
    patch_end(patch_lines(readlines(text), d, annotate), annotate, now)

-----------------------------------------------------------------------------
(* Inputs *)

\* Lines of a geotop.inpts file: a comment, a setting of every type (I twice with
\* different values, and once indented), a line that is no setting, a setting
\* of an unknown keyword and one whose value is no integer.
Lines ==
    { <<"!", " ", "c", NL>>,
      <<"I", " ", "=", " ", "1", NL>>,
      <<"I", " ", "=", " ", "2", NL>>,
      <<" ", "I", " ", "=", " ", "1", NL>>,
      <<"B", " ", "=", " ", "1", NL>>,
      <<"S", " ", "=", " ", "a", NL>>,
      <<"F", " ", "=", " ", "1", ".", "5", NL>>,
      <<"A", " ", "=", " ", "1", ".", "0", ",", " ", "2", ".", "5", NL>>,
      <<"x", " ", "y", NL>>,
      <<"Z", " ", "=", " ", "1", NL>>,
      <<"I", " ", "=", " ", "x", NL>> }

\* Last lines of a file that does not end with a newline.
OpenLines == { <<"!", " ", "c">>, <<"I", " ", "=", " ", "1">> }

\* The content of geotop.inpts before the first call: up to MaxLines lines, only
\* the last of which may lack its newline.
RECURSIVE Texts(_)
Texts(n) ==
    IF n = 0 THEN {<<>>}
    ELSE Texts(n - 1) \cup {t \o l : t \in Texts(n - 1), l \in Lines}

Files == Texts(MaxLines)
         \cup {t \o l : t \in Texts(MaxLines - 1), l \in OpenLines}

\* Items of a diff: values of the type of the keyword (the falsy ones among
\* them), None, and an item of the keyword Z, which keywords does not hold.
Items ==
    { <<<<"I">>, PyInt(0)>>, <<<<"I">>, PyInt(1)>>, <<<<"I">>, PyInt(2)>>,
      <<<<"I">>, None>>,
      <<<<"B">>, PyBool(FALSE)>>, <<<<"B">>, PyBool(TRUE)>>,
      <<<<"F">>, PyFloat(0)>>, <<<<"F">>, PyFloat(15)>>, <<<<"F">>, PyFloat(25)>>,
      <<<<"A">>, PyList(<<>>)>>, <<<<"A">>, PyList(<<10, 25>>)>>,
      <<<<"S">>, PyStr(<<>>)>>, <<<<"S">>, PyStr(<<"b">>)>>,
      <<<<"Z">>, PyInt(0)>>, <<<<"Z">>, PyInt(1)>> }

\* Items of the diffs of two items.
PairItems ==
    { <<<<"I">>, PyInt(2)>>, <<<<"B">>, PyBool(FALSE)>>, <<<<"S">>, PyStr(<<"b">>)>>,
      <<<<"Z">>, PyInt(1)>> }

\* The diff argument: a dict of no, one or two items.
Diffs ==
    {<<>>} \cup {<<item>> : item \in Items}
    \cup {pair \in {<<a, b>> : a \in PairItems, b \in PairItems} : pair[1][1] # pair[2][1]}

\* Lines for read_setting: indentation, keyword, spaces around "=", value text
\* and line end in every combination, and lines that are no setting.
ValueTexts ==
    { <<>>, <<"0">>, <<"1">>, <<"2">>, <<"-", "1">>, <<"1", "2">>, <<"+", "1">>, <<"1", ".", "5">>, <<"1", ".">>,
      <<"x">>, <<"1", ",", "2">>, <<"1", ".", "0", ",", " ", "2", ".", "5">>, <<"1", ",">>, <<"a">>, <<"a", " ">>, <<"a", " ", "b">> }

LineKeys == { <<"I">>, <<"B">>, <<"F">>, <<"A">>, <<"S">>, <<"Z">>, <<"i">>, <<"I", "_", "1">> }

Indent == { <<>>, <<" ">> }

CodecLines ==
    { pre \o key \o s1 \o <<"=">> \o s2 \o text \o end :
        pre \in Indent, key \in LineKeys, s1 \in Indent, s2 \in Indent,
        text \in ValueTexts, end \in {<<>>, <<NL>>, <<" ", NL>>} }
    \cup { <<"!", " ", "c", NL>>, <<"x", " ", "y", NL>>, <<"I", " ", "1", NL>>, <<"Z", " ", "1", NL>>, <<"=", " ", "1", NL>>, <<NL>>, <<"1", " ", "=", " ", "1", NL>> }

\* <<key, value>> arguments of print_setting: every value of the type of the
\* keyword, and the unknown keyword Z.
Settings ==
    { <<<<"I">>, PyInt(n)>> : n \in {-1, 0, 1, 12} }
    \cup { <<<<"B">>, PyBool(b)>> : b \in BOOLEAN }
    \cup { <<<<"F">>, PyFloat(f)>> : f \in {-5, 0, 15, 100} }
    \cup { <<<<"A">>, PyList(a)>> : a \in {<<>>, <<10>>, <<10, 25>>} }
    \cup { <<<<"S">>, PyStr(s)>> :
             s \in {<<>>, <<"a">>, <<" ", "a">>, <<"a", " ">>, <<"a", " ", "b">>, <<" ">>} }
    \cup { <<<<"Z">>, PyInt(1)>> }

-----------------------------------------------------------------------------
(* run_in and __call__ *)

\* What run_in asks about its working_dir argument: exists(), is_dir(),
\* samefile(self.inputs_path) and os.access(working_dir, os.W_OK).  A path that
\* does not exist is nothing else, and a file is not the inputs directory.
WorkingDirs ==
    {wd \in [exists : BOOLEAN, is_dir : BOOLEAN, samefile : BOOLEAN, writable : BOOLEAN] :
        /\ ~wd.exists => (~wd.is_dir /\ ~wd.samefile /\ ~wd.writable)
        /\ ~wd.is_dir => ~wd.samefile}

\* The directory TemporaryDirectory() makes for __call__.
TmpDir == [exists |-> TRUE, is_dir |-> TRUE, samefile |-> FALSE, writable |-> TRUE]

\* No working_dir: no call yet.
NoDir == [exists |-> FALSE, is_dir |-> FALSE, samefile |-> FALSE, writable |-> FALSE]

\* The checks run_in begins with: the exception raised, or "" when all pass.
check_working_dir_without_samefile(wd) ==
    IF ~wd.exists THEN "FileNotFoundError"
    ELSE IF ~wd.is_dir THEN "RuntimeError"
    ELSE IF ~wd.writable THEN "PermissionError"
    ELSE ""

check_working_dir(wd) ==
    IF ~wd.exists THEN "FileNotFoundError"
    ELSE IF ~wd.is_dir THEN "RuntimeError"
    ELSE IF wd.samefile THEN "RuntimeError"
    ELSE IF ~wd.writable THEN "PermissionError"
    ELSE ""

\* The object before any call of run_in: run_args as __init__ sets it without
\* keyword arguments.
RunIdle ==
    /\ run_args = [check |-> TRUE, capture_output |-> TRUE]
    /\ working_dir = NoDir
    /\ pc = "idle"
    /\ steps = <<>>
    /\ exc = ""
    /\ tmpdir = "none"
    /\ runs = 0

-----------------------------------------------------------------------------
(* clone_into *)

Threads == 1..NumThreads

\* The object before any call of clone_into: __init__ with store=True has
\* written the archive to self.inputs, put the stream back to its start and made
\* the lock.
CloneIdle ==
    /\ store = TRUE
    /\ lock = 0
    /\ position = 0
    /\ clone_pc = [t \in Threads |-> "idle"]
    /\ started = [t \in Threads |-> 0]

-----------------------------------------------------------------------------
(* The state machine *)

NoReturn == [ok |-> TRUE]

Init ==
    /\ file \in Files
    /\ op = "none"
    /\ source = <<>>
    /\ diff = <<>>
    /\ annotations = FALSE
    /\ line = <<>>
    /\ setting = <<<<>>, None>>
    /\ ret = NoReturn
    /\ handed = <<>>
    /\ clock = 1
    /\ RunIdle
    /\ CloneIdle

\* A call of patch_inpts_file on the file, with any diff, with or without
\* annotations.  The file grows with every call: the calls end when it is
\* longer than MaxFileLen.
PatchInptsFile ==
    /\ Len(file) <= MaxFileLen
    /\ \E d \in Diffs, a \in BOOLEAN :
          /\ ret' = patch_inpts_file(file, d, a, clock)
          /\ diff' = d
          /\ annotations' = a
    /\ file' = ret'.file
    /\ handed' = ret'.handed
    /\ op' = "patch_inpts_file"
    /\ source' = file
    /\ clock' = clock + 1
    /\ UNCHANGED <<line, setting, runVars, cloneVars>>

\* A call of read_settings on the file.
ReadSettings ==
    /\ op # "read_settings"
    /\ ret' = read_settings(file)
    /\ handed' = ret'.handed
    /\ op' = "read_settings"
    /\ source' = file
    /\ UNCHANGED <<file, diff, annotations, line, setting, clock, runVars, cloneVars>>

Next == PatchInptsFile \/ ReadSettings

Spec == Init /\ [][Next]_vars

\* The codec alone: read_setting and print_setting are static methods that keep
\* nothing from one call to the next, so a behaviour is one call, or a
\* print_setting and the read_setting of what it printed.  No file is involved.
InitCodec ==
    /\ file = <<>>
    /\ op = "none"
    /\ source = <<>>
    /\ diff = <<>>
    /\ annotations = FALSE
    /\ line = <<>>
    /\ setting = <<<<>>, None>>
    /\ ret = NoReturn
    /\ handed = <<>>
    /\ clock = 1
    /\ RunIdle
    /\ CloneIdle

\* A call of read_setting on a line.
ReadSetting ==
    /\ op = "none"
    /\ \E l \in CodecLines :
          /\ line' = l
          /\ ret' = read_setting(l)
    /\ op' = "read_setting"
    /\ UNCHANGED <<file, source, diff, annotations, setting, handed, clock, runVars, cloneVars>>

\* A call of print_setting.
PrintSetting ==
    /\ op = "none"
    /\ \E s \in Settings :
          /\ setting' = s
          /\ ret' = print_setting(s[1], s[2])
    /\ op' = "print_setting"
    /\ UNCHANGED <<file, source, diff, annotations, line, handed, clock, runVars, cloneVars>>

\* read_setting called on the line print_setting has just returned.
ReadPrinted ==
    /\ op = "print_setting"
    /\ ret.ok
    /\ line' = ret.line
    /\ ret' = read_setting(line')
    /\ op' = "read_printed"
    /\ UNCHANGED <<file, source, diff, annotations, setting, handed, clock, runVars, cloneVars>>

NextCodec == ReadSetting \/ PrintSetting \/ ReadPrinted

SpecCodec == InitCodec /\ [][NextCodec]_vars

-----------------------------------------------------------------------------
(* The state machine of run_in *)

\* The object after __init__: keyword arguments of the constructor go to
\* run_args, so check is True unless the caller passed check=False.
InitRun ==
    /\ file = <<>>
    /\ op = "none"
    /\ source = <<>>
    /\ diff = <<>>
    /\ annotations = FALSE
    /\ line = <<>>
    /\ setting = <<<<>>, None>>
    /\ ret = NoReturn
    /\ handed = <<>>
    /\ clock = 1
    /\ run_args \in [check : BOOLEAN, capture_output : {TRUE}]
    /\ working_dir = NoDir
    /\ pc = "idle"
    /\ steps = <<>>
    /\ exc = ""
    /\ tmpdir = "none"
    /\ runs = 0
    /\ CloneIdle

\* No call of run_in is under way.
Ended == pc \in {"idle", "returned", "raised"}

\* __call__ leaves the with block, by return or by exception: the
\* TemporaryDirectory is removed.
Cleanup == IF tmpdir = "open" THEN "removed" ELSE tmpdir

\* run_in(working_dir) is called and checks working_dir.
RunIn ==
    /\ Ended
    /\ runs < MaxRuns
    /\ \E wd \in WorkingDirs : working_dir' = wd
    /\ exc' = check_working_dir(working_dir')
    /\ pc' = IF exc' = "" THEN "preprocess" ELSE "raised"
    /\ steps' = <<>>
    /\ tmpdir' = "none"
    /\ runs' = runs + 1
    /\ UNCHANGED <<fileVars, run_args, cloneVars>>

\* __call__: run_in is called on a new TemporaryDirectory and checks it.
Call ==
    /\ Ended
    /\ runs < MaxRuns
    /\ working_dir' = TmpDir
    /\ exc' = check_working_dir(working_dir')
    /\ pc' = IF exc' = "" THEN "preprocess" ELSE "raised"
    /\ tmpdir' = IF exc' = "" THEN "open" ELSE "removed"
    /\ steps' = <<>>
    /\ runs' = runs + 1
    /\ UNCHANGED <<fileVars, run_args, cloneVars>>

\* self.preprocess(working_dir, ...), which returns or raises.
Preprocess ==
    /\ pc = "preprocess"
    /\ \E ok \in BOOLEAN :
          /\ steps' = steps \o (IF ok THEN <<"preprocess", "preprocess returned">>
                                      ELSE <<"preprocess">>)
          /\ pc' = IF ok THEN "run" ELSE "raised"
          /\ exc' = IF ok THEN "" ELSE "Exception"
          /\ tmpdir' = IF ok THEN tmpdir ELSE Cleanup
    /\ UNCHANGED <<fileVars, run_args, working_dir, runs, cloneVars>>

\* subprocess.run([self.exe, working_dir], **self.run_args) starts the binary.
Launch ==
    /\ pc = "run"
    /\ steps' = Append(steps, "launch")
    /\ pc' = "running"
    /\ UNCHANGED <<fileVars, run_args, working_dir, exc, tmpdir, runs, cloneVars>>

\* The binary ends with an exit code and subprocess.run returns, or raises
\* CalledProcessError when check is set and the code is not 0.
Exit ==
    /\ pc = "running"
    /\ \E code \in {0, 1} :
          IF run_args.check /\ code # 0
          THEN /\ pc' = "raised"
               /\ exc' = "CalledProcessError"
               /\ tmpdir' = Cleanup
               /\ UNCHANGED steps
          ELSE /\ pc' = "postprocess"
               /\ steps' = Append(steps, "launch returned")
               /\ UNCHANGED <<exc, tmpdir>>
    /\ UNCHANGED <<fileVars, run_args, working_dir, runs, cloneVars>>

\* self.postprocess(working_dir), which returns the output or raises.
Postprocess ==
    /\ pc = "postprocess"
    /\ \E ok \in BOOLEAN :
          /\ steps' = steps \o (IF ok THEN <<"postprocess", "postprocess returned">>
                                      ELSE <<"postprocess">>)
          /\ pc' = IF ok THEN "returned" ELSE "raised"
          /\ exc' = IF ok THEN "" ELSE "Exception"
    /\ tmpdir' = Cleanup
    /\ UNCHANGED <<fileVars, run_args, working_dir, runs, cloneVars>>

NextRun == RunIn \/ Call \/ Preprocess \/ Launch \/ Exit \/ Postprocess

SpecRun == InitRun /\ [][NextRun]_vars

-----------------------------------------------------------------------------
(* The state machine of clone_into *)

\* The object after __init__, built with store=True (the archive in
\* self.inputs, the stream at its start, the lock free) or with store=False
\* (self.inputs is None and there is no lock).
InitClone ==
    /\ file = <<>>
    /\ op = "none"
    /\ source = <<>>
    /\ diff = <<>>
    /\ annotations = FALSE
    /\ line = <<>>
    /\ setting = <<<<>>, None>>
    /\ ret = NoReturn
    /\ handed = <<>>
    /\ clock = 1
    /\ RunIdle
    /\ store \in BOOLEAN
    /\ lock = 0
    /\ position = 0
    /\ clone_pc = [t \in Threads |-> "idle"]
    /\ started = [t \in Threads |-> 0]

\* Thread t is in no call of clone_into.
Outside(t) == clone_pc[t] \in {"idle", "done", "failed"}

\* Thread t calls clone_into on an object with a stored archive and comes to
\* `with self.lock`.
CloneInto(t) ==
    /\ store
    /\ Outside(t)
    /\ clone_pc' = [clone_pc EXCEPT ![t] = "waiting"]
    /\ UNCHANGED <<fileVars, runVars, store, lock, position, started>>

\* `with self.lock`: t gets the lock when no thread holds it.
Acquire(t) ==
    /\ clone_pc[t] = "waiting"
    /\ lock = 0
    /\ lock' = t
    /\ clone_pc' = [clone_pc EXCEPT ![t] = "locked"]
    /\ UNCHANGED <<fileVars, runVars, store, position, started>>

\* tarfile.open(fileobj=self.inputs, mode='r'): the archive is read from where
\* the stream is.  From the start of the stream it reads the first header; from
\* elsewhere it reads what follows, which it may take for an archive or reject
\* with ReadError.
Open(t) ==
    /\ clone_pc[t] = "locked"
    /\ started' = [started EXCEPT ![t] = position]
    /\ position' = IF position < ArchiveLen THEN position + 1 ELSE position
    /\ \E ok \in {TRUE} \cup {b \in {FALSE} : position # 0} :
          clone_pc' = [clone_pc EXCEPT ![t] = IF ok THEN "opened" ELSE "unwinding"]
    /\ UNCHANGED <<fileVars, runVars, store, lock>>

\* safe_extract(tar, path=working_dir): the members are read and written to
\* working_dir, to the end of the archive, or an exception ends the extraction
\* at some block.
Extract(t) ==
    /\ clone_pc[t] = "opened"
    /\ \/ /\ position' = ArchiveLen
          /\ clone_pc' = [clone_pc EXCEPT ![t] = "extracted"]
       \/ /\ position' \in position..ArchiveLen
          /\ clone_pc' = [clone_pc EXCEPT ![t] = "unwinding"]
    /\ UNCHANGED <<fileVars, runVars, store, lock, started>>

\* The archive is closed and self.inputs.seek(io.SEEK_SET) puts the stream back
\* to its start.
Seek(t) ==
    /\ clone_pc[t] = "extracted"
    /\ position' = 0
    /\ clone_pc' = [clone_pc EXCEPT ![t] = "reset"]
    /\ UNCHANGED <<fileVars, runVars, store, lock, started>>

\* The end of `with self.lock`: the lock is released and clone_into returns.
Release(t) ==
    /\ clone_pc[t] = "reset"
    /\ lock' = 0
    /\ clone_pc' = [clone_pc EXCEPT ![t] = "done"]
    /\ UNCHANGED <<fileVars, runVars, store, position, started>>

\* An exception raised inside `with tarfile.open(...)` leaves both with blocks:
\* the lock is released, the seek after the inner block is not reached.
Unwind(t) ==
    /\ clone_pc[t] = "unwinding"
    /\ lock' = 0
    /\ clone_pc' = [clone_pc EXCEPT ![t] = "failed"]
    /\ UNCHANGED <<fileVars, runVars, store, position, started>>

\* clone_into on an object without a stored archive: shutil.copytree, no lock.
Copytree(t) ==
    /\ ~store
    /\ clone_pc[t] \in {"idle", "done"}
    /\ clone_pc' = [clone_pc EXCEPT ![t] = IF clone_pc[t] = "idle" THEN "done" ELSE "idle"]
    /\ UNCHANGED <<fileVars, runVars, store, lock, position, started>>

NextClone ==
    \E t \in Threads :
        \/ CloneInto(t)
        \/ Acquire(t)
        \/ Open(t)
        \/ Extract(t)
        \/ Seek(t)
        \/ Release(t)
        \/ Unwind(t)
        \/ Copytree(t)

SpecClone == InitClone /\ [][NextClone]_vars

-----------------------------------------------------------------------------
(* Vocabulary of the properties *)

\* After a call of patch_inpts_file or read_settings: the lines the call read,
\* and the lines of the file as the call left it.
Orig == readlines(source)

Out == readlines(file)

Patched == op = "patch_inpts_file"

\* Line i of the original file was passed to read_setting, which returned a pair.
ParsedAt(i) == ~comment_re_match(Orig[i]) /\ read_setting(Orig[i]).ok

\* Line i of the original file was passed to read_setting, which raised.
RejectedAt(i) == ~comment_re_match(Orig[i]) /\ ~read_setting(Orig[i]).ok

\* The keys of the parsed setting lines before line i of the original file.
SeenBefore(i) == {read_setting(Orig[j]).key : j \in {k \in 1..(i - 1) : ParsedAt(k)}}

\* s starts with p.
StartsWith(s, p) == Len(s) >= Len(p) /\ SubSeq(s, 1, Len(p)) = p

\* A comment line as the format defines it: only whitespace, or "!" as the first
\* character that is not whitespace.
IsCommentLine(l) == Strip(l) = <<>> \/ Strip(l)[1] = "!"

\* The line has the shape of a setting: whitespace, a keyword [A-Z]\w*, whitespace,
\* "=" (what follows "=" always fits the rest of the pattern).  a is the last
\* character before the keyword, b the last character of the keyword, c the
\* last character before "=".
ShapeAt(l, a, b, c) ==
    /\ \A i \in 1..a : l[i] \in Whitespace
    /\ l[a + 1] \in Upper
    /\ \A i \in (a + 2)..b : l[i] \in Word
    /\ \A i \in (b + 1)..c : l[i] \in Whitespace
    /\ c < Len(l) /\ l[c + 1] = "="

Shapes(l) ==
    {abc \in (0..Len(l)) \X (1..Len(l)) \X (1..Len(l)) :
        abc[1] < abc[2] /\ abc[2] <= abc[3] /\ ShapeAt(l, abc[1], abc[2], abc[3])}

HasSettingShape(l) == Shapes(l) # {}

KeyOf(l) == LET abc == CHOOSE x \in Shapes(l) : TRUE IN SubSeq(l, abc[1] + 1, abc[2])

\* The text after "=" without the whitespace at its ends.
TrimmedValueOf(l) == Strip(SubSeq(l, Find(l, 1, "=") + 1, Len(l)))

-----------------------------------------------------------------------------
(* C1 .. C10 *)

\* C1: patch_inpts_file never drops an original line that is no comment line and
\* that read_setting rejects: the patched file has a line equal to it, and with
\* annotations the line before it is an annotation comment of the patch.
C1_RejectedLinePreserved ==
    Patched =>
        \A i \in 1..Len(Orig) :
            (RejectedAt(i) /\ ~IsCommentLine(Orig[i])) =>
                \E j \in 1..Len(Out) :
                    /\ Out[j] = Orig[i]
                    /\ annotations => j > 1 /\ StartsWith(Out[j - 1], NotePrefix)

\* C2: after patch_inpts_file with a diff of schema keywords, every item of the
\* diff whose value is not None and whose key is on no parsed setting line of the
\* original file is a line print_setting(key, value) of the patched file, whatever
\* the value (0, 0.0, False, the empty string and the empty list too); with
\* annotations the line comes after the marker "! Settings added by GEOtoPy".
MarkerLine == Tail(AddedMarker)

C2_UnseenItemsAppended ==
    (Patched /\ Keys(diff) \subseteq DOMAIN keywords) =>
        \A n \in 1..Len(diff) :
            (~IsNone(diff[n][2]) /\ diff[n][1] \notin SeenBefore(Len(Orig) + 1)) =>
                \E j \in 1..Len(Out) :
                    /\ Out[j] = print_setting(diff[n][1], diff[n][2]).line
                    /\ annotations => \E m \in 1..(j - 1) : Out[m] = MarkerLine

\* C3: after patch_inpts_file with annotations, for every parsed original setting
\* line (key, old_value) whose key is in the overrides still to be applied when
\* the line is reached (the key is in diff and on no earlier parsed line), with a
\* value that is not None and differs from old_value: what the patch writes for
\* the line is one annotation comment that mentions old_value, immediately
\* followed by print_setting(key, diff[key]) and nothing else (the original line
\* is not written), and the key is not among the items left for the added section.
OverwrittenAt(i) ==
    /\ ParsedAt(i)
    /\ read_setting(Orig[i]).key \in Keys(diff) \ SeenBefore(i)
    /\ ~IsNone(Get(diff, read_setting(Orig[i]).key))
    /\ ~PyEq(Get(diff, read_setting(Orig[i]).key), read_setting(Orig[i]).value)

SameButStamp(before, after) ==
    /\ Len(readlines(after)) = Len(readlines(before))
    /\ \A i \in 2..Len(readlines(before)) : readlines(after)[i] = readlines(before)[i]
    /\ StartsWith(readlines(after)[1], HeaderText)

C5_EmptyPatchIdempotent ==
    [][(Patched /\ diff = <<>> /\ clock' = clock + 1 /\ diff' = <<>>)
          => SameButStamp(file, file')]_vars

\* C6: after patch_inpts_file with a diff that holds a key outside the schema,
\* not on any parsed line of the original file and with a value that dump_to
\* does not skip, the call has returned normally, every other item left for the
\* added section that dump_to does not skip is in the file as its print_setting
\* line, and the file has a literal "key = value" line for the unknown key with a
\* comment line before it.
UnknownItems ==
    {n \in 1..Len(diff) : diff[n][1] \notin DOMAIN keywords /\ Truthy(diff[n][2])}

C6_UnknownOverrideDoesNotAbort ==
    (Patched /\ UnknownItems # {}) =>
        /\ ~ret.raised
        /\ \A n \in 1..Len(diff) :
              (/\ diff[n][1] \in DOMAIN keywords
               /\ Truthy(diff[n][2])
               /\ diff[n][1] \notin SeenBefore(Len(Orig) + 1)) =>
                  \E j \in 1..Len(Out) : Out[j] = print_setting(diff[n][1], diff[n][2]).line
        /\ \A n \in UnknownItems :
              \E j \in 2..Len(Out) :
                  /\ Out[j] = diff[n][1] \o <<" ", "=", " ">> \o Str(diff[n][2]) \o <<NL>>
                  /\ StartsWith(Out[j - 1], <<"!">>)

\* C7 as claimed: a parsed original setting line whose key is not in diff is
\* commented out: every line the patch writes for it is a comment.
C7_AbsentKeyCommentedOut ==
    Patched =>
        \A i \in 1..Len(Orig) :
            (ParsedAt(i) /\ read_setting(Orig[i]).key \notin Keys(diff)) =>
                \A k \in 1..Len(readlines(ret.outs[i])) :
                    IsCommentLine(readlines(ret.outs[i])[k])

\* C7 as amended: a parsed original setting line whose key is not in diff is
\* kept: the patch writes the line itself for it, unchanged, with no annotation
\* and not commented out, and the text is in the patched file.
C7_AbsentKeyKept ==
    Patched =>
        \A i \in 1..Len(Orig) :
            (ParsedAt(i) /\ read_setting(Orig[i]).key \notin Keys(diff)) =>
                /\ ret.outs[i] = Orig[i]
                /\ ~IsCommentLine(Orig[i])
                /\ Contains(file, Orig[i])

C7_Witness ==
    /\ Patched /\ annotations /\ diff # <<>>
    /\ \E i \in 1..Len(Orig) : ParsedAt(i) /\ read_setting(Orig[i]).key \notin Keys(diff)

\* C8: read_settings and patch_inpts_file pass to read_setting exactly the lines
\* of the file that are no comment lines (not only whitespace, and "!" not the
\* first character that is not whitespace), in order.
C8_CommentLinesExactly ==
    op \in {"read_settings", "patch_inpts_file"} =>
        handed = SelectSeq(Orig, LAMBDA l : ~IsCommentLine(l))

\* C4: read_setting(print_setting(key, value)) returns (key, value) for every
\* keyword of the schema and every value of its type.
C4_RoundTrip ==
    (op = "read_printed" /\ setting[1] \in DOMAIN keywords) =>
        ret.ok /\ ret.key = setting[1] /\ PyEq(ret.value, setting[2])

\* C9: for a line of setting shape whose keyword is in the schema and whose value
\* text the type of the keyword can take, read_setting returns the keyword and:
\* float, the parsed float; int, the parsed integer; bool, True exactly for the
\* integer 1; array, the floats of the pieces between ","; string, the text
\* after "=" without the whitespace at its two ends.
Coercible(key, text) ==
    CASE keywords[key] = "float" -> FloatOk(text)
      [] keywords[key] \in {"int", "bool"} -> IntOk(text)
      [] keywords[key] = "array" ->
            \A i \in 1..Len(Split(text, ",")) : FloatOk(Split(text, ",")[i])
      [] OTHER -> TRUE

Coerced(key, text) ==
    CASE keywords[key] = "float" -> PyFloat(FloatOf(text))
      [] keywords[key] = "int" -> PyInt(IntOf(text))
      [] keywords[key] = "bool" -> PyBool(IntOf(text) = 1)
      [] keywords[key] = "array" ->
            PyList([i \in 1..Len(Split(text, ",")) |-> FloatOf(Split(text, ",")[i])])
      [] OTHER -> PyStr(text)

C9_CoercionByType ==
    (/\ op = "read_setting"
     /\ HasSettingShape(line)
     /\ KeyOf(line) \in DOMAIN keywords
     /\ Coercible(KeyOf(line), TrimmedValueOf(line))) =>
        /\ ret.ok
        /\ ret.key = KeyOf(line)
        /\ PyEq(ret.value, Coerced(KeyOf(line), TrimmedValueOf(line)))

\* C10: read_setting returns no pair for a bad line.  A line that has not the
\* shape of a setting raises the error that carries the line, also when it begins
\* with a word that is no keyword of the schema; a line of setting shape whose
\* keyword is not in the schema raises the unknown-keyword error that carries
\* the keyword.
C10_BadLineRaises ==
    op = "read_setting" =>
        /\ ~HasSettingShape(line) =>
              ~ret.ok /\ ret.exc = "ValueError" /\ ret.msg = line \o MsgNotValid
        /\ (HasSettingShape(line) /\ KeyOf(line) \notin DOMAIN keywords) =>
              /\ ~ret.ok /\ ret.exc = "ValueError"
              /\ ret.msg = MsgUnknownKeyword \o KeyOf(line) \o <<".">>
        /\ ~ret.ok => ret.key = <<>> /\ IsNone(ret.value)

C10_Witness ==
    /\ op = "read_setting"
    /\ HasSettingShape(line)
    /\ KeyOf(line) \notin DOMAIN keywords
    /\ ~ret.ok

-----------------------------------------------------------------------------
(* C11 .. C15 *)

\* Line i of the file read is a setting line of the format (no comment line)
\* that read_setting parses.
SettingLineAt(i) == ~IsCommentLine(Orig[i]) /\ read_setting(Orig[i]).ok

\* The last setting line of the file read with the key.
LastSettingLine(key) ==
    CHOOSE i \in 1..Len(Orig) :
        /\ SettingLineAt(i) /\ read_setting(Orig[i]).key = key
        /\ \A j \in (i + 1)..Len(Orig) :
              ~(SettingLineAt(j) /\ read_setting(Orig[j]).key = key)

\* C11: read_settings returns a mapping whose keys are the keys of the setting
\* lines of the file that parse, each with the value of the last such line
\* (last-write-wins); no other line contributes.
C11_LastWriteWins ==
    op = "read_settings" =>
        /\ Keys(ret.settings) =
              {read_setting(Orig[i]).key : i \in {k \in 1..Len(Orig) : SettingLineAt(k)}}
        /\ \A key \in Keys(ret.settings) :
              PyEq(Get(ret.settings, key), read_setting(Orig[LastSettingLine(key)]).value)

\* The items of diff that the patch is to set: the keyword is in the schema and
\* the value is not None.
Overrides == {i \in 1..Len(diff) : diff[i][1] \in DOMAIN keywords /\ ~IsNone(diff[i][2])}

\* C13: when patch_inpts_file has returned, read_settings of the patched file
\* maps every key of diff that is in the schema and whose value is not None to
\* the value diff gives it.
C13_PatchThenRead ==
    [][(Patched /\ ~ret.raised /\ op' = "read_settings") =>
          \A i \in Overrides :
              /\ diff[i][1] \in Keys(ret'.settings)
              /\ PyEq(Get(ret'.settings, diff[i][1]), diff[i][2])]_vars

\* The keys of diff whose value is None.
Deleted == {diff[i][1] : i \in {k \in 1..Len(diff) : IsNone(diff[k][2])}}

\* C14: when patch_inpts_file has returned, read_settings of the patched file
\* has no entry for a key whose value in diff is None, whether the original
\* file had a parsed setting line of the key or not.
C14_NoneDeletes ==
    [][(Patched /\ ~ret.raised /\ op' = "read_settings") =>
          \A key \in Deleted : key \notin Keys(ret'.settings)]_vars

\* The steps of a call of run_in that returns, in order.
RunSteps ==
    <<"preprocess", "preprocess returned", "launch", "launch returned",
      "postprocess", "postprocess returned">>

\* working_dir exists, is a directory, is not the inputs directory and is
\* writable.
DirOk(wd) == wd.exists /\ wd.is_dir /\ ~wd.samefile /\ wd.writable

\* step is among the steps of the call.
Did(step) == \E i \in 1..Len(steps) : steps[i] = step

\* C12: the steps of run_in happen only in the order preprocess, launch of the
\* binary, postprocess, each after the one before has returned; the binary is
\* launched only on a working directory that passes the four checks; a call
\* whose working directory fails a check raises and takes no step.
C12_StepsInOrder ==
    /\ Len(steps) <= Len(RunSteps) /\ steps = SubSeq(RunSteps, 1, Len(steps))
    /\ Did("launch") => (DirOk(working_dir) /\ Did("preprocess returned"))
    /\ Did("postprocess") => Did("launch returned")
    /\ (pc # "idle" /\ ~DirOk(working_dir)) => (pc = "raised" /\ exc # "" /\ steps = <<>>)

C12_Witness ==
    /\ pc = "returned" /\ steps = RunSteps /\ DirOk(working_dir)
    /\ runs > 1

\* Thread t is inside `with self.lock` of clone_into.
Inside(t) == clone_pc[t] \in {"locked", "opened", "extracted", "reset", "unwinding"}

\* Thread t has opened the archive in its call of clone_into, the one under way
\* or the last one.
HasOpened(t) == clone_pc[t] \in {"opened", "extracted", "reset", "unwinding", "done", "failed"}

\* C15: on an object built with store=True at most one call of clone_into is
\* inside the lock at a time, the thread inside holds the lock, and every call
\* opens the archive with the stream at position 0, also after a call that
\* failed during the extraction.
C15_CloneAtStart ==
    store =>
        /\ \A t, u \in Threads : (Inside(t) /\ Inside(u)) => t = u
        /\ \A t \in Threads : Inside(t) => lock = t
        /\ \A t \in Threads : HasOpened(t) => started[t] = 0

====
